---- MODULE Spec2Model ----
(***************************************************************************)
(* A model of the VivaTech scraper (src/src/main.rs, src/src/partners.rs): *)
(* the two pipelines run_scraper and run_partners_scraper, the bracket     *)
(* scan that delimits the embedded JSON array, the quote replacement and   *)
(* the unescape pass, the JSON parse, the partner filter and the CSV       *)
(* export.                                                                 *)
(*                                                                         *)
(* Text is a sequence of Unicode scalar values (a Rust `char` each); byte  *)
(* offsets are computed from the UTF-8 length of each character.           *)
(***************************************************************************)
EXTENDS Integers, Sequences, FiniteSets, TLC

(***************************************************************************)
(* Bounds of the model.                                                    *)
(***************************************************************************)
\* longest raw tail that follows a marker occurrence in a generated page
MaxTail == 3
\* longest string value inside a generated well-formed array
MaxStr == 2
\* longest array handed to the partner filter on its own
MaxItems == 3
\* most characters that follow a backslash-u in a generated unescape input
MaxAfterU == 4

(***************************************************************************)
(* Characters.                                                             *)
(***************************************************************************)
Ascii ==
  <<
    " ", "!", "\"", "#", "$", "%", "&", "'", "(", ")", "*", "+", ",", "-", ".", "/",
    "0", "1", "2", "3", "4", "5", "6", "7", "8", "9", ":", ";", "<", "=", ">", "?",
    "@", "A", "B", "C", "D", "E", "F", "G", "H", "I", "J", "K", "L", "M", "N", "O",
    "P", "Q", "R", "S", "T", "U", "V", "W", "X", "Y", "Z", "[", "\\", "]", "^", "_",
    "", "a", "b", "c", "d", "e", "f", "g", "h", "i", "j", "k", "l", "m", "n", "o",
    "p", "q", "r", "s", "t", "u", "v", "w", "x", "y", "z", "{", "|", "}", "~"
  >>

\* the scalar value of a printable ASCII character (the table starts at 32;
\* the backquote, 96, has no literal and is left blank)
CharCode(c) == 31 + (CHOOSE i \in 1..Len(Ascii) : Ascii[i] = c)

\* a text literal, written as a tuple of one-character strings
Enc(t) == [i \in 1..Len(t) |-> CharCode(t[i])]

BACKSLASH == 92
QUOTE == 34
LBRACKET == 91
RBRACKET == 93
LOWER_U == 117

\* the partners loop's safety limit on the byte offset
SAFETY_LIMIT == 50000000

\* a page of tens of megabytes is written with one code that is no Unicode
\* scalar value: it stands for SAFETY_LIMIT + 1 spaces in a row
SpaceRun == 1114112

\* char::len_utf8
Utf8Len(ch) ==
    IF ch = SpaceRun THEN SAFETY_LIMIT + 1
    ELSE IF ch < 128 THEN 1 ELSE IF ch < 2048 THEN 2 ELSE IF ch < 65536 THEN 3 ELSE 4

\* str::len: the length of a text in bytes, the sum of Utf8Len over it
ByteLen(s) ==
    Len(s) + Cardinality({i \in 1..Len(s) : Utf8Len(s[i]) >= 2 /\ s[i] # SpaceRun})
           + Cardinality({i \in 1..Len(s) : Utf8Len(s[i]) >= 3 /\ s[i] # SpaceRun})
           + Cardinality({i \in 1..Len(s) : Utf8Len(s[i]) >= 4 /\ s[i] # SpaceRun})
           + SAFETY_LIMIT * Cardinality({i \in 1..Len(s) : s[i] = SpaceRun})

\* whether byte offset b falls on a character boundary of s (str::is_char_boundary)
IsCharBoundary(s, b) == \E p \in 0..Len(s) : ByteLen(SubSeq(s, 1, p)) = b

\* the number of characters before byte offset b
CharsBefore(s, b) == CHOOSE p \in 0..Len(s) : ByteLen(SubSeq(s, 1, p)) = b

\* whether pat occurs in s at character position p
MatchesAt(s, pat, p) ==
    /\ p + Len(pat) - 1 <= Len(s)
    /\ SubSeq(s, p, p + Len(pat) - 1) = pat

\* str::contains
Contains(s, pat) == \E p \in 1..(Len(s) + 1) : MatchesAt(s, pat, p)

\* a find that settles on the last occurrence instead of the first
FindLast(s, pat) ==
    LET ps == {p \in 1..(Len(s) + 1) : MatchesAt(s, pat, p)}
    IN  IF ps = {} THEN -1
        ELSE ByteLen(SubSeq(s, 1, (CHOOSE p \in ps : \A q \in ps : p >= q) - 1))

\* str::find: the byte offset of the first occurrence of pat in s, -1 for None
Find(s, pat) ==
    LET ps == {p \in 1..(Len(s) + 1) : MatchesAt(s, pat, p)}
    IN  IF ps = {} THEN -1
        ELSE ByteLen(SubSeq(s, 1, (CHOOSE p \in ps : \A q \in ps : p <= q) - 1))

RECURSIVE Replace(_, _, _)
\* str::replace: every non-overlapping occurrence of pat, left to right
\* (pat is not empty)
Replace(s, pat, to) ==
    LET ps == {p \in 1..Len(s) : MatchesAt(s, pat, p)}
        first == CHOOSE p \in ps : \A q \in ps : p <= q
    IN  IF ps = {} THEN s
        ELSE SubSeq(s, 1, first - 1) \o to
                 \o Replace(SubSeq(s, first + Len(pat), Len(s)), pat, to)

(***************************************************************************)
(* unescape_unicode (the same function in both source files).              *)
(***************************************************************************)
\* the value of one hexadecimal digit, -1 for any other character
HexDigit(ch) ==
    IF ch >= 48 /\ ch <= 57 THEN ch - 48
    ELSE IF ch >= 97 /\ ch <= 102 THEN ch - 87
    ELSE IF ch >= 65 /\ ch <= 70 THEN ch - 55
    ELSE -1

RECURSIVE HexValue(_, _)
HexValue(s, acc) ==
    IF s = <<>> THEN acc ELSE HexValue(Tail(s), acc * 16 + HexDigit(Head(s)))

\* a from_str_radix that takes digits only
FromStrRadix16Strict(s) ==
    IF s # <<>> /\ \A i \in 1..Len(s) : HexDigit(s[i]) >= 0
    THEN HexValue(s, 0) ELSE -1

\* u32::from_str_radix(s, 16): an optional '+' sign, then hexadecimal digits;
\* -1 for Err.  (At most four characters are passed: no overflow.)
FromStrRadix16(s) ==
    LET digits == IF Len(s) > 1 /\ s[1] = 43 THEN Tail(s) ELSE s
    IN  IF digits # <<>> /\ \A i \in 1..Len(digits) : HexDigit(digits[i]) >= 0
        THEN HexValue(digits, 0)
        ELSE -1

\* char::from_u32: Some exactly for a scalar value (no surrogate, at most 10FFFF)
IsScalarValue(cp) == cp >= 0 /\ cp <= 1114111 /\ ~(cp >= 55296 /\ cp <= 57343)

\* one iteration of the `while let Some(ch) = chars.next()` loop:
\* st.rest is what the iterator still holds, st.out the result so far
UnescapeIter(st) ==
    LET ch == Head(st.rest)
        r1 == Tail(st.rest)
    IN  IF ch # BACKSLASH THEN [rest |-> r1, out |-> Append(st.out, ch)]
        ELSE IF r1 = <<>> THEN [rest |-> r1, out |-> Append(st.out, ch)]
        ELSE LET next_ch == Head(r1)
                 r2 == Tail(r1)
             IN  IF next_ch = LOWER_U
                 THEN LET n == IF Len(r2) < 4 THEN Len(r2) ELSE 4
                          hex_chars == SubSeq(r2, 1, n)
                          r3 == SubSeq(r2, n + 1, Len(r2))
                          code_point == FromStrRadix16(hex_chars)
                      IN  IF ByteLen(hex_chars) = 4 /\ code_point >= 0
                             /\ IsScalarValue(code_point)
                          THEN [rest |-> r3, out |-> Append(st.out, code_point)]
                          ELSE [rest |-> r3,
                                out |-> st.out \o <<BACKSLASH, LOWER_U>> \o hex_chars]
                 ELSE IF next_ch = 110 THEN [rest |-> r2, out |-> Append(st.out, 10)]
                 ELSE IF next_ch = 114 THEN [rest |-> r2, out |-> Append(st.out, 13)]
                 ELSE IF next_ch = 116 THEN [rest |-> r2, out |-> Append(st.out, 9)]
                 ELSE IF next_ch = QUOTE THEN [rest |-> r2, out |-> Append(st.out, QUOTE)]
                 ELSE IF next_ch = BACKSLASH
                      THEN [rest |-> r2, out |-> Append(st.out, BACKSLASH)]
                 ELSE [rest |-> r2, out |-> st.out \o <<BACKSLASH, next_ch>>]

\* the iterations up to the next backslash, each of which pushes its character
UnescapePlainRun(st) ==
    LET bs == {p \in 1..Len(st.rest) : st.rest[p] = BACKSLASH}
        n == IF bs = {} THEN Len(st.rest) ELSE (CHOOSE p \in bs : \A q \in bs : p <= q) - 1
    IN  [rest |-> SubSeq(st.rest, n + 1, Len(st.rest)),
         out |-> st.out \o SubSeq(st.rest, 1, n)]

RECURSIVE UnescapeLoop(_)
\* the whole loop: plain runs at once, UnescapeIter at each backslash
UnescapeLoop(st) ==
    IF st.rest = <<>> THEN st.out
    ELSE IF Head(st.rest) = BACKSLASH THEN UnescapeLoop(UnescapeIter(st))
    ELSE UnescapeLoop(UnescapePlainRun(st))

\* unescape_unicode(input)
unescape_unicode(input) == UnescapeLoop([rest |-> input, out |-> <<>>])

(***************************************************************************)
(* The extraction scan (extract_json_from_html and the same loop in        *)
(* extract_partners_from_html).                                            *)
(***************************************************************************)
\* the marker literal r#"[{\"id\":\""#
Marker == Enc(<<"[", "{", "\\", "\"", "i", "d", "\\", "\"", ":", "\\", "\"">>)

\* the pattern and the replacement of json_str.replace(r#"\""#, r#"""#)
EscapedQuote == <<BACKSLASH, QUOTE>>
BareQuote == <<QUOTE>>

\* the scan's locals before the loop
ScanInit == [bracket_count |-> 0, in_string |-> FALSE, escape_next |-> FALSE, hit |-> FALSE]

\* a loop body that counts the brackets and never returns
ScanIterNoReturn(st, ch) ==
    IF st.escape_next
    THEN [st EXCEPT !.escape_next = FALSE]
    ELSE IF ch = BACKSLASH
    THEN [st EXCEPT !.escape_next = TRUE]
    ELSE IF ch = QUOTE
    THEN [st EXCEPT !.in_string = ~@]
    ELSE IF ch = LBRACKET /\ ~st.in_string
    THEN [st EXCEPT !.bracket_count = @ + 1]
    ELSE IF ch = RBRACKET /\ ~st.in_string
    THEN [st EXCEPT !.bracket_count = @ - 1]
    ELSE st

\* one iteration of `for (i, ch) in html_content[start_idx..].char_indices()`:
\* hit says that this character is a ']' that brought bracket_count to 0
\* (bracket_count is an i32; the inputs of the model stay far from its range)
ScanIter(st, ch) ==
    IF st.escape_next
    THEN [st EXCEPT !.escape_next = FALSE]
    ELSE IF ch = BACKSLASH
    THEN [st EXCEPT !.escape_next = TRUE]
    ELSE IF ch = QUOTE /\ ~st.escape_next
    THEN [st EXCEPT !.in_string = ~@]
    ELSE IF ch = LBRACKET /\ ~st.in_string
    THEN [st EXCEPT !.bracket_count = @ + 1]
    ELSE IF ch = RBRACKET /\ ~st.in_string
    THEN [st EXCEPT !.bracket_count = @ - 1, !.hit = (st.bracket_count - 1 = 0)]
    ELSE st

\* &html_content[start_idx..]
SliceFrom(s, start) == SubSeq(s, CharsBefore(s, start) + 1, Len(s))

\* &html_content[start_idx..=end]: the bytes start..end+1
SliceInclusive(s, start, end) ==
    SubSeq(s, CharsBefore(s, start) + 1, CharsBefore(s, end + 1))

\* a slice panics unless both ends fall on character boundaries
SliceInclusiveOk(s, start, end) ==
    /\ start <= end + 1
    /\ IsCharBoundary(s, start)
    /\ IsCharBoundary(s, end + 1)

\* the text recovered from a delimited payload: the quote replacement, then
\* the unescape pass
RecoverText(json_str) == unescape_unicode(Replace(json_str, EscapedQuote, BareQuote))

(***************************************************************************)
(* serde_json::from_str: a JSON parser over the text.  Values are tagged   *)
(* records; an object is the sequence of its members as written (Get      *)
(* reads the last member with a key, as Map::insert replaces).  Numbers    *)
(* are integers: no generated text holds a fraction or an exponent.        *)
(***************************************************************************)
JNull == [t |-> "null"]
JBool(b) == [t |-> "bool", b |-> b]
JNum(n) == [t |-> "num", n |-> n]
JStr(s) == [t |-> "str", s |-> s]
JArr(a) == [t |-> "arr", a |-> a]
JObj(m) == [t |-> "obj", m |-> m]

PFail == [ok |-> FALSE, v |-> JNull, i |-> 0]
POk(v, i) == [ok |-> TRUE, v |-> v, i |-> i]

IsWs(ch) == ch \in {32, 10, 13, 9, SpaceRun}
IsDigit(ch) == ch >= 48 /\ ch <= 57

RECURSIVE SkipWs(_, _)
SkipWs(s, i) == IF i <= Len(s) /\ IsWs(s[i]) THEN SkipWs(s, i + 1) ELSE i

\* the four hexadecimal digits of a \u escape at s[i..i+3], -1 unless all four are
HexEscape(s, i) ==
    IF i + 3 <= Len(s) THEN FromStrRadix16Strict(SubSeq(s, i, i + 3)) ELSE -1

RECURSIVE StrBody(_, _, _)
\* the characters of a string literal from s[i] up to its closing quote
StrBody(s, i, acc) ==
    IF i > Len(s) THEN PFail
    ELSE IF s[i] = QUOTE THEN POk(acc, i + 1)
    ELSE IF s[i] < 32 THEN PFail
    ELSE IF s[i] # BACKSLASH THEN StrBody(s, i + 1, Append(acc, s[i]))
    ELSE IF i + 1 > Len(s) THEN PFail
    ELSE LET e == s[i + 1]
         IN  IF e \in {QUOTE, BACKSLASH, 47} THEN StrBody(s, i + 2, Append(acc, e))
             ELSE IF e = 98 THEN StrBody(s, i + 2, Append(acc, 8))
             ELSE IF e = 102 THEN StrBody(s, i + 2, Append(acc, 12))
             ELSE IF e = 110 THEN StrBody(s, i + 2, Append(acc, 10))
             ELSE IF e = 114 THEN StrBody(s, i + 2, Append(acc, 13))
             ELSE IF e = 116 THEN StrBody(s, i + 2, Append(acc, 9))
             ELSE IF e # LOWER_U THEN PFail
             ELSE LET hi == HexEscape(s, i + 2)
                  IN  IF hi < 0 THEN PFail
                      ELSE IF IsScalarValue(hi) THEN StrBody(s, i + 6, Append(acc, hi))
                      ELSE IF hi >= 56320 THEN PFail
                      ELSE IF ~(i + 7 <= Len(s) /\ s[i + 6] = BACKSLASH /\ s[i + 7] = LOWER_U)
                           THEN PFail
                      ELSE LET lo == HexEscape(s, i + 8)
                           IN  IF lo >= 56320 /\ lo <= 57343
                               THEN StrBody(s, i + 12,
                                            Append(acc, 65536 + (hi - 55296) * 1024 + (lo - 56320)))
                               ELSE PFail

RECURSIVE DigitsEnd(_, _)
DigitsEnd(s, i) == IF i <= Len(s) /\ IsDigit(s[i]) THEN DigitsEnd(s, i + 1) ELSE i

\* an integer literal at s[i]: -? (0 | [1-9][0-9]*)
ParseNumber(s, i) ==
    LET d == IF s[i] = 45 THEN i + 1 ELSE i
        e == DigitsEnd(s, d)
    IN  IF e = d THEN PFail
        ELSE IF s[d] = 48 /\ e > d + 1 THEN PFail
        ELSE POk(JNum(SubSeq(s, i, e - 1)), e)

ParseLiteral(s, i, word, v) ==
    IF MatchesAt(s, word, i) THEN POk(v, i + Len(word)) ELSE PFail

RECURSIVE ParseValue(_, _)
RECURSIVE ParseElems(_, _, _)
RECURSIVE ParseMembers(_, _, _)

\* the elements of an array after '[' or ',': s[i] starts a value
ParseElems(s, i, acc) ==
    LET r == ParseValue(s, i)
    IN  IF ~r.ok THEN PFail
        ELSE LET j == SkipWs(s, r.i)
             IN  IF j > Len(s) THEN PFail
                 ELSE IF s[j] = 44 THEN ParseElems(s, SkipWs(s, j + 1), Append(acc, r.v))
                 ELSE IF s[j] = RBRACKET THEN POk(JArr(Append(acc, r.v)), j + 1)
                 ELSE PFail

\* the members of an object after '{' or ',': s[i] starts a key
ParseMembers(s, i, acc) ==
    IF i > Len(s) \/ s[i] # QUOTE THEN PFail
    ELSE LET k == StrBody(s, i + 1, <<>>)
         IN  IF ~k.ok THEN PFail
             ELSE LET c == SkipWs(s, k.i)
                  IN  IF c > Len(s) \/ s[c] # 58 THEN PFail
                      ELSE LET r == ParseValue(s, SkipWs(s, c + 1))
                           IN  IF ~r.ok THEN PFail
                               ELSE LET j == SkipWs(s, r.i)
                                        m == Append(acc, <<k.v, r.v>>)
                                    IN  IF j > Len(s) THEN PFail
                                        ELSE IF s[j] = 44
                                             THEN ParseMembers(s, SkipWs(s, j + 1), m)
                                        ELSE IF s[j] = 125 THEN POk(JObj(m), j + 1)
                                        ELSE PFail

\* one JSON value starting at s[i]
ParseValue(s, i) ==
    IF i > Len(s) THEN PFail
    ELSE IF s[i] = QUOTE
         THEN LET r == StrBody(s, i + 1, <<>>)
              IN  IF r.ok THEN POk(JStr(r.v), r.i) ELSE PFail
    ELSE IF s[i] = LBRACKET
         THEN LET j == SkipWs(s, i + 1)
              IN  IF j <= Len(s) /\ s[j] = RBRACKET THEN POk(JArr(<<>>), j + 1)
                  ELSE ParseElems(s, j, <<>>)
    ELSE IF s[i] = 123
         THEN LET j == SkipWs(s, i + 1)
              IN  IF j <= Len(s) /\ s[j] = 125 THEN POk(JObj(<<>>), j + 1)
                  ELSE ParseMembers(s, j, <<>>)
    ELSE IF s[i] = 116 THEN ParseLiteral(s, i, Enc(<<"t", "r", "u", "e">>), JBool(TRUE))
    ELSE IF s[i] = 102 THEN ParseLiteral(s, i, Enc(<<"f", "a", "l", "s", "e">>), JBool(FALSE))
    ELSE IF s[i] = 110 THEN ParseLiteral(s, i, Enc(<<"n", "u", "l", "l">>), JNull)
    ELSE IF s[i] = 45 \/ IsDigit(s[i]) THEN ParseNumber(s, i)
    ELSE PFail

\* serde_json::from_str::<serde_json::Value>: one value, then only whitespace
from_str(text) ==
    LET r == ParseValue(text, SkipWs(text, 1))
    IN  IF r.ok /\ SkipWs(text, r.i) > Len(text) THEN r ELSE PFail

(***************************************************************************)
(* Country lookups of partners.rs.                                         *)
(***************************************************************************)
\* the rules of extract_country_from_city, in order: <<patterns, country>>
CityRules ==
  <<
    << <<Enc(<<"P", "a", "r", "i", "s">>)>>,
       Enc(<<"F", "r", "a", "n", "c", "e">>) >>,
    << <<Enc(<<"L", "o", "n", "d", "o", "n">>)>>,
       Enc(<<"U", "K">>) >>,
    << <<Enc(<<"B", "e", "r", "l", "i", "n">>)>>,
       Enc(<<"G", "e", "r", "m", "a", "n", "y">>) >>,
    << <<Enc(<<"T", "o", "k", "y", "o">>)>>,
       Enc(<<"J", "a", "p", "a", "n">>) >>,
    << <<Enc(<<"N", "e", "w", " ", "Y", "o", "r", "k">>), Enc(<<"S", "a", "n", " ", "F", "r", "a", "n", "c", "i", "s", "c", "o">>)>>,
       Enc(<<"U", "S", "A">>) >>,
    << <<Enc(<<"B", "e", "i", "j", "i", "n", "g">>), Enc(<<"S", "h", "a", "n", "g", "h", "a", "i">>)>>,
       Enc(<<"C", "h", "i", "n", "a">>) >>,
    << <<Enc(<<"M", "u", "m", "b", "a", "i">>), Enc(<<"B", "a", "n", "g", "a", "l", "o", "r", "e">>)>>,
       Enc(<<"I", "n", "d", "i", "a">>) >>,
    << <<Enc(<<"T", "o", "r", "o", "n", "t", "o">>), Enc(<<"M", "o", "n", "t", "r", "e", "a", "l">>)>>,
       Enc(<<"C", "a", "n", "a", "d", "a">>) >>
  >>

\* the `countries` table of extract_country_from_name: <<pattern, country>>
NameCountries ==
  <<
    <<Enc(<<"F", "r", "a", "n", "c", "e">>),
      Enc(<<"F", "r", "a", "n", "c", "e">>)>>,
    <<Enc(<<"U", "S", "A">>),
      Enc(<<"U", "S", "A">>)>>,
    <<Enc(<<"U", "n", "i", "t", "e", "d", " ", "S", "t", "a", "t", "e", "s">>),
      Enc(<<"U", "S", "A">>)>>,
    <<Enc(<<"U", "K">>),
      Enc(<<"U", "K">>)>>,
    <<Enc(<<"U", "n", "i", "t", "e", "d", " ", "K", "i", "n", "g", "d", "o", "m">>),
      Enc(<<"U", "K">>)>>,
    <<Enc(<<"G", "e", "r", "m", "a", "n", "y">>),
      Enc(<<"G", "e", "r", "m", "a", "n", "y">>)>>,
    <<Enc(<<"J", "a", "p", "a", "n">>),
      Enc(<<"J", "a", "p", "a", "n">>)>>,
    <<Enc(<<"C", "h", "i", "n", "a">>),
      Enc(<<"C", "h", "i", "n", "a">>)>>,
    <<Enc(<<"I", "n", "d", "i", "a">>),
      Enc(<<"I", "n", "d", "i", "a">>)>>,
    <<Enc(<<"C", "a", "n", "a", "d", "a">>),
      Enc(<<"C", "a", "n", "a", "d", "a">>)>>
  >>

\* the `countries` list of is_likely_country
LikelyCountries ==
  <<
    Enc(<<"F", "r", "a", "n", "c", "e">>),
    Enc(<<"U", "S", "A">>),
    Enc(<<"U", "n", "i", "t", "e", "d", " ", "S", "t", "a", "t", "e", "s">>),
    Enc(<<"U", "K">>),
    Enc(<<"U", "n", "i", "t", "e", "d", " ", "K", "i", "n", "g", "d", "o", "m">>),
    Enc(<<"G", "e", "r", "m", "a", "n", "y">>),
    Enc(<<"J", "a", "p", "a", "n">>),
    Enc(<<"C", "h", "i", "n", "a">>),
    Enc(<<"I", "n", "d", "i", "a">>),
    Enc(<<"C", "a", "n", "a", "d", "a">>),
    Enc(<<"S", "p", "a", "i", "n">>),
    Enc(<<"I", "t", "a", "l", "y">>),
    Enc(<<"N", "e", "t", "h", "e", "r", "l", "a", "n", "d", "s">>),
    Enc(<<"B", "e", "l", "g", "i", "u", "m">>),
    Enc(<<"S", "w", "i", "t", "z", "e", "r", "l", "a", "n", "d">>),
    Enc(<<"A", "u", "s", "t", "r", "i", "a">>),
    Enc(<<"A", "u", "s", "t", "r", "a", "l", "i", "a">>),
    Enc(<<"N", "e", "w", " ", "Z", "e", "a", "l", "a", "n", "d">>),
    Enc(<<"S", "i", "n", "g", "a", "p", "o", "r", "e">>),
    Enc(<<"K", "o", "r", "e", "a">>),
    Enc(<<"B", "r", "a", "z", "i", "l">>),
    Enc(<<"M", "e", "x", "i", "c", "o">>),
    Enc(<<"A", "r", "g", "e", "n", "t", "i", "n", "a">>),
    Enc(<<"C", "h", "i", "l", "e">>),
    Enc(<<"P", "o", "l", "a", "n", "d">>),
    Enc(<<"C", "z", "e", "c", "h", " ", "R", "e", "p", "u", "b", "l", "i", "c">>),
    Enc(<<"H", "u", "n", "g", "a", "r", "y">>),
    Enc(<<"R", "o", "m", "a", "n", "i", "a">>),
    Enc(<<"G", "r", "e", "e", "c", "e">>),
    Enc(<<"P", "o", "r", "t", "u", "g", "a", "l">>),
    Enc(<<"I", "r", "e", "l", "a", "n", "d">>),
    Enc(<<"S", "c", "o", "t", "l", "a", "n", "d">>),
    Enc(<<"W", "a", "l", "e", "s">>),
    Enc(<<"S", "w", "e", "d", "e", "n">>),
    Enc(<<"N", "o", "r", "w", "a", "y">>),
    Enc(<<"D", "e", "n", "m", "a", "r", "k">>),
    Enc(<<"F", "i", "n", "l", "a", "n", "d">>),
    Enc(<<"R", "u", "s", "s", "i", "a">>),
    Enc(<<"U", "k", "r", "a", "i", "n", "e">>),
    Enc(<<"T", "u", "r", "k", "e", "y">>),
    Enc(<<"I", "s", "r", "a", "e", "l">>),
    Enc(<<"U", "A", "E">>),
    Enc(<<"S", "a", "u", "d", "i", " ", "A", "r", "a", "b", "i", "a">>),
    Enc(<<"E", "g", "y", "p", "t">>),
    Enc(<<"S", "o", "u", "t", "h", " ", "A", "f", "r", "i", "c", "a">>),
    Enc(<<"N", "i", "g", "e", "r", "i", "a">>),
    Enc(<<"K", "e", "n", "y", "a">>),
    Enc(<<"M", "o", "r", "o", "c", "c", "o">>),
    Enc(<<"A", "l", "g", "e", "r", "i", "a">>),
    Enc(<<"T", "u", "n", "i", "s", "i", "a">>),
    Enc(<<"A", "l", "b", "a", "n", "i", "a">>),
    Enc(<<"A", "r", "m", "e", "n", "i", "a">>),
    Enc(<<"B", "a", "n", "g", "l", "a", "d", "e", "s", "h">>)
  >>

\* the first entry of a rule table (entries <<patterns, result>>, patterns a
\* tuple) one of whose patterns s contains; <<>> when no rule matches
RECURSIVE FirstRule(_, _, _)
FirstRule(rules, s, k) ==
    IF k > Len(rules) THEN <<>>
    ELSE IF \E j \in 1..Len(rules[k][1]) : Contains(s, rules[k][1][j]) THEN rules[k][2]
    ELSE FirstRule(rules, s, k + 1)

\* extract_country_from_city
extract_country_from_city(city) == FirstRule(CityRules, city, 1)

\* u8::to_ascii_lowercase on each character (eq_ignore_ascii_case)
AsciiLower(s) == [i \in 1..Len(s) |-> IF s[i] >= 65 /\ s[i] <= 90 THEN s[i] + 32 ELSE s[i]]

\* str::to_uppercase; characters outside ASCII are left as they are (no
\* generated name holds one)
ToUpper(s) == [i \in 1..Len(s) |-> IF s[i] >= 97 /\ s[i] <= 122 THEN s[i] - 32 ELSE s[i]]

\* char::is_whitespace
IsWhitespace(ch) ==
    \/ ch \in {9, 10, 11, 12, 13, 32, 133, 160, 5760, 8232, 8233, 8239, 8287, 12288}
    \/ ch = SpaceRun
    \/ (ch >= 8192 /\ ch <= 8202)

RECURSIVE TrimStart(_)
TrimStart(s) == IF s # <<>> /\ IsWhitespace(Head(s)) THEN TrimStart(Tail(s)) ELSE s

RECURSIVE TrimEnd(_)
TrimEnd(s) ==
    IF s # <<>> /\ IsWhitespace(s[Len(s)]) THEN TrimEnd(SubSeq(s, 1, Len(s) - 1)) ELSE s

\* str::trim
Trim(s) == TrimEnd(TrimStart(s))

\* is_likely_country
is_likely_country(text) ==
    \E k \in 1..Len(LikelyCountries) : AsciiLower(text) = AsciiLower(LikelyCountries[k])

RECURSIVE FirstNameCountry(_, _)
\* the `for (pattern, country) in &countries` loop
FirstNameCountry(name_upper, k) ==
    IF k > Len(NameCountries) THEN <<>>
    ELSE IF Contains(name_upper, ToUpper(NameCountries[k][1])) THEN NameCountries[k][2]
    ELSE FirstNameCountry(name_upper, k + 1)

Dash == Enc(<<" ", "-", " ">>)

\* extract_country_from_name
extract_country_from_name(name) ==
    LET ps == {p \in 1..Len(name) : MatchesAt(name, Dash, p)}
        dash_pos == CHOOSE p \in ps : \A q \in ps : p >= q
        potential_country == Trim(SubSeq(name, dash_pos + 3, Len(name)))
    IN  IF ps # {} /\ is_likely_country(potential_country)
        THEN potential_country
        ELSE FirstNameCountry(ToUpper(name), 1)

(***************************************************************************)
(* The partner filter: extract_partners_from_json_array.                   *)
(***************************************************************************)
None == [some |-> FALSE]
Some(v) == [some |-> TRUE, v |-> v]

\* Value::get / Map::get with a string key: None unless v is an object that
\* has the key
Get(v, key) ==
    IF v.t # "obj" THEN None
    ELSE LET js == {j \in 1..Len(v.m) : v.m[j][1] = key}
         IN  IF js = {} THEN None
             ELSE Some(v.m[CHOOSE j \in js : \A q \in js : j >= q][2])

\* Option::and_then(|x| x.get(key))
AndThenGet(o, key) == IF o.some THEN Get(o.v, key) ELSE None

\* Option::and_then(|v| v.as_str())
AndThenStr(o) == IF o.some /\ o.v.t = "str" THEN Some(o.v.s) ELSE None

\* Option::unwrap_or("")
UnwrapOrEmpty(o) == IF o.some THEN o.v ELSE <<>>

KeyName == Enc(<<"n", "a", "m", "e">>)
KeyType == Enc(<<"t", "y", "p", "e">>)
KeyDesc == Enc(<<"d", "e", "s", "c">>)
KeyShortDesc == Enc(<<"s", "h", "o", "r", "t", "_", "d", "e", "s", "c">>)
KeyWebsite == Enc(<<"w", "e", "b", "s", "i", "t", "e">>)
KeyLogo == Enc(<<"l", "o", "g", "o">>)
KeyU == Enc(<<"u">>)
KeyFigures == Enc(<<"k", "e", "y", "_", "f", "i", "g", "u", "r", "e", "s">>)
KeyCity == Enc(<<"c", "i", "t", "y">>)
TextPartner == Enc(<<"p", "a", "r", "t", "n", "e", "r">>)
TextStartup == Enc(<<"s", "t", "a", "r", "t", "u", "p">>)

\* a filter that takes every type that mentions a startup
TypeKeptLoose(type_str) == Contains(type_str, TextPartner) \/ Contains(type_str, TextStartup)

\* type_str.contains("partner") || type_str == "startup"
TypeKept(type_str) == Contains(type_str, TextPartner) \/ type_str = TextStartup

\* the conditions of lines 96-101: an object with string name and type of a
\* kept type
PassesFilter(item) ==
    /\ item.t = "obj"
    /\ Get(item, KeyName).some /\ Get(item, KeyType).some
    /\ AndThenStr(Get(item, KeyName)).some /\ AndThenStr(Get(item, KeyType)).some
    /\ TypeKept(Get(item, KeyType).v.s)

\* obj.get("desc").or_else(|| obj.get("short_desc")).and_then(|v| v.as_str())
\*    .unwrap_or("")
Description(obj) ==
    LET d == Get(obj, KeyDesc)
    IN  UnwrapOrEmpty(AndThenStr(IF d.some THEN d ELSE Get(obj, KeyShortDesc)))

\* the country field: key_figures.city through the city table, else the name
Country(obj, name) ==
    LET city == AndThenStr(AndThenGet(Get(obj, KeyFigures), KeyCity))
    IN  IF city.some THEN extract_country_from_city(city.v)
        ELSE extract_country_from_name(name)

\* the Partner built at lines 102-130 from an object that passes the filter
BuildPartner(obj) ==
    [name |-> Get(obj, KeyName).v.s,
     category |-> Get(obj, KeyType).v.s,
     country |-> Country(obj, Get(obj, KeyName).v.s),
     description |-> Description(obj),
     website |-> UnwrapOrEmpty(AndThenStr(Get(obj, KeyWebsite))),
     logo_url |-> UnwrapOrEmpty(AndThenStr(AndThenGet(Get(obj, KeyLogo), KeyU)))]

\* a push that skips the duplicate check
PushAlways(partners, partner) == Append(partners, partner)

\* lines 133-135: push unless a partner of that name is already there
PushUnlessDuplicate(partners, partner) ==
    IF ~\E j \in 1..Len(partners) : partners[j].name = partner.name
    THEN Append(partners, partner)
    ELSE partners

\* one iteration of `for item in array`
FilterIter(partners, item) ==
    IF PassesFilter(item) THEN PushUnlessDuplicate(partners, BuildPartner(item))
    ELSE partners

RECURSIVE FilterLoop(_, _, _)
FilterLoop(partners, array, k) ==
    IF k > Len(array) THEN partners
    ELSE FilterLoop(FilterIter(partners, array[k]), array, k + 1)

\* extract_partners_from_json_array(array)
extract_partners_from_json_array(array) == FilterLoop(<<>>, array, 1)

(***************************************************************************)
(* The speakers parse: serde_json::from_str::<Vec<Speaker>>, the derived   *)
(* Deserialize of Speaker and Image read from JSON objects.                *)
(***************************************************************************)
\* how many members of an object carry the key
CountKey(obj, key) == Cardinality({j \in 1..Len(obj.m) : obj.m[j][1] = key})

\* a field of type String without a default: present, a string
FieldStrOk(obj, key) == Get(obj, key).some /\ Get(obj, key).v.t = "str"

\* a field of type String with #[serde(default)]: a string when present
FieldStrDefaultOk(obj, key) == Get(obj, key).some => Get(obj, key).v.t = "str"

\* a field of type Vec<String> with #[serde(default)]
FieldVecOk(obj, key) ==
    Get(obj, key).some =>
        /\ Get(obj, key).v.t = "arr"
        /\ \A j \in 1..Len(Get(obj, key).v.a) : Get(obj, key).v.a[j].t = "str"

\* a field of type bool with #[serde(default)]
FieldBoolOk(obj, key) == Get(obj, key).some => Get(obj, key).v.t = "bool"

\* a field of type Option<String>: absent, null or a string
FieldOptStrOk(obj, key) == Get(obj, key).some => Get(obj, key).v.t \in {"null", "str"}

ImageKeys == {Enc(<<"s">>), Enc(<<"t">>), Enc(<<"l">>), Enc(<<"u">>)}

\* the struct Image
ImageOk(v) ==
    /\ v.t = "obj"
    /\ \A key \in ImageKeys : CountKey(v, key) <= 1
    /\ FieldStrDefaultOk(v, Enc(<<"s">>)) /\ FieldStrDefaultOk(v, Enc(<<"t">>))
    /\ FieldStrDefaultOk(v, Enc(<<"l">>)) /\ FieldStrOk(v, Enc(<<"u">>))

SpeakerKeys ==
    {Enc(<<"i", "d">>), Enc(<<"f", "i", "r", "s", "t", "n", "a", "m", "e">>), Enc(<<"l", "a", "s", "t", "n", "a", "m", "e">>), Enc(<<"e", "m", "a", "i", "l">>), Enc(<<"j", "o", "b", "T", "i", "t", "l", "e">>), Enc(<<"c", "o", "m", "p", "a", "n", "y">>),
     Enc(<<"t", "a", "g", "s">>), Enc(<<"t", "h", "e", "m", "e", "s">>), Enc(<<"i", "m", "a", "g", "e">>), Enc(<<"h", "a", "s", "B", "i", "o">>), Enc(<<"h", "a", "s", "S", "e", "s", "s", "i", "o", "n", "s">>),
     Enc(<<"i", "s", "O", "f", "f", "i", "c", "i", "a", "l">>), Enc(<<"i", "s", "P", "a", "r", "t", "n", "e", "r">>), Enc(<<"t", "o", "p">>), Enc(<<"c", "o", "m", "m", "u", "n", "i", "c", "a", "t", "i", "o", "n", "_", "m", "a", "n", "a", "g", "e", "r">>)}

\* whether a JSON value deserializes into the struct Speaker (unknown members
\* are ignored, a member given twice is an error)
SpeakerOk(v) ==
    /\ v.t = "obj"
    /\ \A key \in SpeakerKeys : CountKey(v, key) <= 1
    /\ FieldStrOk(v, Enc(<<"i", "d">>)) /\ FieldStrOk(v, Enc(<<"f", "i", "r", "s", "t", "n", "a", "m", "e">>))
    /\ FieldStrOk(v, Enc(<<"l", "a", "s", "t", "n", "a", "m", "e">>)) /\ FieldStrDefaultOk(v, Enc(<<"e", "m", "a", "i", "l">>))
    /\ FieldStrOk(v, Enc(<<"j", "o", "b", "T", "i", "t", "l", "e">>)) /\ FieldStrOk(v, Enc(<<"c", "o", "m", "p", "a", "n", "y">>))
    /\ FieldVecOk(v, Enc(<<"t", "a", "g", "s">>)) /\ FieldVecOk(v, Enc(<<"t", "h", "e", "m", "e", "s">>))
    /\ (Get(v, Enc(<<"i", "m", "a", "g", "e">>)).some /\ Get(v, Enc(<<"i", "m", "a", "g", "e">>)).v.t # "null"
            => ImageOk(Get(v, Enc(<<"i", "m", "a", "g", "e">>)).v))
    /\ FieldBoolOk(v, Enc(<<"h", "a", "s", "B", "i", "o">>)) /\ FieldBoolOk(v, Enc(<<"h", "a", "s", "S", "e", "s", "s", "i", "o", "n", "s">>))
    /\ FieldBoolOk(v, Enc(<<"i", "s", "O", "f", "f", "i", "c", "i", "a", "l">>)) /\ FieldBoolOk(v, Enc(<<"i", "s", "P", "a", "r", "t", "n", "e", "r">>))
    /\ FieldBoolOk(v, Enc(<<"t", "o", "p">>)) /\ FieldOptStrOk(v, Enc(<<"c", "o", "m", "m", "u", "n", "i", "c", "a", "t", "i", "o", "n", "_", "m", "a", "n", "a", "g", "e", "r">>))

StrOrEmpty(obj, key) == UnwrapOrEmpty(AndThenStr(Get(obj, key)))
BoolOrFalse(obj, key) == IF Get(obj, key).some THEN Get(obj, key).v.b ELSE FALSE
VecOrEmpty(obj, key) ==
    IF Get(obj, key).some
    THEN [j \in 1..Len(Get(obj, key).v.a) |-> Get(obj, key).v.a[j].s]
    ELSE <<>>

\* the Speaker a well-typed object deserializes into
SpeakerOf(v) ==
    [id |-> StrOrEmpty(v, Enc(<<"i", "d">>)),
     firstname |-> StrOrEmpty(v, Enc(<<"f", "i", "r", "s", "t", "n", "a", "m", "e">>)),
     lastname |-> StrOrEmpty(v, Enc(<<"l", "a", "s", "t", "n", "a", "m", "e">>)),
     email |-> StrOrEmpty(v, Enc(<<"e", "m", "a", "i", "l">>)),
     job_title |-> StrOrEmpty(v, Enc(<<"j", "o", "b", "T", "i", "t", "l", "e">>)),
     company |-> StrOrEmpty(v, Enc(<<"c", "o", "m", "p", "a", "n", "y">>)),
     tags |-> VecOrEmpty(v, Enc(<<"t", "a", "g", "s">>)),
     themes |-> VecOrEmpty(v, Enc(<<"t", "h", "e", "m", "e", "s">>)),
     image |-> IF Get(v, Enc(<<"i", "m", "a", "g", "e">>)).some /\ Get(v, Enc(<<"i", "m", "a", "g", "e">>)).v.t # "null"
               THEN Some([s |-> StrOrEmpty(Get(v, Enc(<<"i", "m", "a", "g", "e">>)).v, Enc(<<"s">>)),
                          t |-> StrOrEmpty(Get(v, Enc(<<"i", "m", "a", "g", "e">>)).v, Enc(<<"t">>)),
                          l |-> StrOrEmpty(Get(v, Enc(<<"i", "m", "a", "g", "e">>)).v, Enc(<<"l">>)),
                          u |-> StrOrEmpty(Get(v, Enc(<<"i", "m", "a", "g", "e">>)).v, Enc(<<"u">>))])
               ELSE None,
     has_bio |-> BoolOrFalse(v, Enc(<<"h", "a", "s", "B", "i", "o">>)),
     has_sessions |-> BoolOrFalse(v, Enc(<<"h", "a", "s", "S", "e", "s", "s", "i", "o", "n", "s">>)),
     is_official |-> BoolOrFalse(v, Enc(<<"i", "s", "O", "f", "f", "i", "c", "i", "a", "l">>)),
     is_partner |-> BoolOrFalse(v, Enc(<<"i", "s", "P", "a", "r", "t", "n", "e", "r">>)),
     top |-> BoolOrFalse(v, Enc(<<"t", "o", "p">>)),
     communication_manager |-> AndThenStr(Get(v, Enc(<<"c", "o", "m", "m", "u", "n", "i", "c", "a", "t", "i", "o", "n", "_", "m", "a", "n", "a", "g", "e", "r">>)))]

\* parse_speakers_from_json: Ok with the speakers, or Err
parse_speakers_from_json(json_str) ==
    LET r == from_str(json_str)
    IN  IF r.ok /\ r.v.t = "arr" /\ \A j \in 1..Len(r.v.a) : SpeakerOk(r.v.a[j])
        THEN [ok |-> TRUE, speakers |-> [j \in 1..Len(r.v.a) |-> SpeakerOf(r.v.a[j])]]
        ELSE [ok |-> FALSE, speakers |-> <<>>]

(***************************************************************************)
(* CSV records and the export.  A file's content is the sequence of its    *)
(* rows, a row the sequence of its cells.                                  *)
(***************************************************************************)
NA == Enc(<<"N", "/", "A">>)

RECURSIVE Join(_, _)
\* [String]::join(sep)
Join(list, sep) ==
    IF list = <<>> THEN <<>>
    ELSE IF Len(list) = 1 THEN list[1]
    ELSE list[1] \o sep \o Join(Tail(list), sep)

BoolText(b) == IF b THEN Enc(<<"t", "r", "u", "e">>) ELSE Enc(<<"f", "a", "l", "s", "e">>)

\* the columns of SpeakerRecord, by their serde names
SpeakerHeader ==
    <<Enc(<<"I", "D">>), Enc(<<"F", "i", "r", "s", "t", "N", "a", "m", "e">>), Enc(<<"L", "a", "s", "t", "N", "a", "m", "e">>), Enc(<<"E", "m", "a", "i", "l">>), Enc(<<"J", "o", "b", "T", "i", "t", "l", "e">>), Enc(<<"C", "o", "m", "p", "a", "n", "y">>),
      Enc(<<"T", "a", "g", "s">>), Enc(<<"T", "h", "e", "m", "e", "s">>), Enc(<<"H", "a", "s", "B", "i", "o">>), Enc(<<"H", "a", "s", "S", "e", "s", "s", "i", "o", "n", "s">>), Enc(<<"I", "s", "O", "f", "f", "i", "c", "i", "a", "l">>),
      Enc(<<"I", "s", "P", "a", "r", "t", "n", "e", "r">>), Enc(<<"I", "s", "T", "o", "p", "S", "p", "e", "a", "k", "e", "r">>), Enc(<<"C", "o", "m", "m", "u", "n", "i", "c", "a", "t", "i", "o", "n", "M", "a", "n", "a", "g", "e", "r">>), Enc(<<"I", "m", "a", "g", "e", "S", "m", "a", "l", "l", "U", "R", "L">>),
      Enc(<<"I", "m", "a", "g", "e", "T", "h", "u", "m", "b", "n", "a", "i", "l", "U", "R", "L">>), Enc(<<"I", "m", "a", "g", "e", "L", "a", "r", "g", "e", "U", "R", "L">>), Enc(<<"I", "m", "a", "g", "e", "M", "a", "i", "n", "U", "R", "L">>)>>

\* the cells of the SpeakerRecord that convert_to_csv_records builds
SpeakerRow(speaker) ==
    <<speaker.id, speaker.firstname, speaker.lastname, speaker.email,
      speaker.job_title, speaker.company,
      Join(speaker.tags, Enc(<<",", " ">>)), Join(speaker.themes, Enc(<<",", " ">>)),
      BoolText(speaker.has_bio), BoolText(speaker.has_sessions),
      BoolText(speaker.is_official), BoolText(speaker.is_partner),
      BoolText(speaker.top),
      IF speaker.communication_manager.some THEN speaker.communication_manager.v ELSE NA,
      IF speaker.image.some THEN speaker.image.v.s ELSE NA,
      IF speaker.image.some THEN speaker.image.v.t ELSE NA,
      IF speaker.image.some THEN speaker.image.v.l ELSE NA,
      IF speaker.image.some THEN speaker.image.v.u ELSE NA>>

\* convert_to_csv_records
convert_to_csv_records(speakers) == [j \in 1..Len(speakers) |-> SpeakerRow(speakers[j])]

\* the columns of PartnerRecord, by their serde names
PartnerHeader ==
    <<Enc(<<"C", "o", "m", "p", "a", "n", "y", "N", "a", "m", "e">>), Enc(<<"C", "a", "t", "e", "g", "o", "r", "y">>), Enc(<<"C", "o", "u", "n", "t", "r", "y">>), Enc(<<"D", "e", "s", "c", "r", "i", "p", "t", "i", "o", "n">>), Enc(<<"W", "e", "b", "s", "i", "t", "e">>),
      Enc(<<"L", "o", "g", "o", "U", "R", "L">>)>>

\* the cells of a PartnerRecord
PartnerRow(partner) ==
    <<partner.name, partner.category, partner.country, partner.description,
      partner.website, partner.logo_url>>

\* convert_to_partner_records
convert_to_partner_records(partners) == [j \in 1..Len(partners) |-> PartnerRow(partners[j])]

\* what csv::Writer has written once every record is serialized and the
\* writer flushed: the header goes out with the first record
CsvRows(header, records) == IF records = <<>> THEN <<>> ELSE <<header>> \o records

(***************************************************************************)
(* Inputs: the pages a server may hold.                                    *)
(***************************************************************************)
SeqsUpTo(S, n) == UNION {[1..k -> S] : k \in 0..n}

RECURSIVE Flatten(_)
\* the concatenation of a sequence of texts
Flatten(ts) == IF ts = <<>> THEN <<>> ELSE Head(ts) \o Flatten(Tail(ts))

\* the characters of a raw tail
TailAlphabet == {LBRACKET, RBRACKET, BACKSLASH, QUOTE, 97}

\* what a generated string value is made of: 'a', '[', ']', and the JSON
\* escape backslash-n
StrPieces == {<<97>>, <<LBRACKET>>, <<RBRACKET>>, <<BACKSLASH, 110>>}

\* the contents of the generated string values
StrValues == {Flatten(ps) : ps \in SeqsUpTo(StrPieces, MaxStr)}

\* surroundings of the payload: nothing, or HTML holding a '[' before and a
\* ']' after it, and a two-byte character
Wrappers ==
    { <<<<>>, <<>>>>,
      <<Enc(<<"<", "p", ">", "[">>) \o <<233>>, Enc(<<"]", "<", "/", "p", ">">>)>> }

\* [{"id":"<s>"}]
IdDoc(s) == Enc(<<"[", "{", "\"", "i", "d", "\"", ":", "\"">>) \o s \o Enc(<<"\"", "}", "]">>)

\* [{"id":"1","tags":["<s>"]}]
TagsDoc(s) == Enc(<<"[", "{", "\"", "i", "d", "\"", ":", "\"", "1", "\"", ",", "\"", "t", "a", "g", "s", "\"", ":", "[", "\"">>) \o s \o Enc(<<"\"", "]", "}", "]">>)

\* arrays the speakers parse accepts
SpeakerDocs ==
    { Enc(<<"[", "{", "\"", "i", "d", "\"", ":", "\"", "1", "\"", ",", "\"", "f", "i", "r", "s", "t", "n", "a", "m", "e", "\"", ":", "\"", "J", "a", "n", "e", "\"", ",", "\"", "l", "a", "s", "t", "n", "a", "m", "e", "\"", ":", "\"", "D", "o", "e", "\"", ",", "\"", "j", "o", "b", "T", "i", "t", "l", "e", "\"", ":", "\"", "C", "E", "O", "\"", ",", "\"", "c", "o", "m", "p", "a", "n", "y", "\"", ":", "\"", "A", "c", "m", "e", "\"", "}", "]">>),
      Enc(<<"[", "{", "\"", "i", "d", "\"", ":", "\"", "2", "\"", ",", "\"", "f", "i", "r", "s", "t", "n", "a", "m", "e", "\"", ":", "\"", "A", "\"", ",", "\"", "l", "a", "s", "t", "n", "a", "m", "e", "\"", ":", "\"", "B", "\"", ",", "\"", "j", "o", "b", "T", "i", "t", "l", "e", "\"", ":", "\"", "C", "\"", ",", "\"", "c", "o", "m", "p", "a", "n", "y", "\"", ":", "\"", "D", "\"", ",", "\"", "t", "a", "g", "s", "\"", ":", "[", "\"", "x", "\"", ",", "\"", "y", "\"", "]", ",", "\"", "t", "o", "p", "\"", ":", "t", "r", "u", "e", ",", "\"", "i", "m", "a", "g", "e", "\"", ":", "{", "\"", "u", "\"", ":", "\"", "i", "\"", "}", "}", ",", " ", "{", "\"", "i", "d", "\"", ":", "\"", "3", "\"", ",", "\"", "f", "i", "r", "s", "t", "n", "a", "m", "e", "\"", ":", "\"", "E", "\"", ",", "\"", "l", "a", "s", "t", "n", "a", "m", "e", "\"", ":", "\"", "F", "\"", ",", "\"", "j", "o", "b", "T", "i", "t", "l", "e", "\"", ":", "\"", "G", "\"", ",", "\"", "c", "o", "m", "p", "a", "n", "y", "\"", ":", "\"", "H", "\"", ",", "\"", "i", "m", "a", "g", "e", "\"", ":", "n", "u", "l", "l", "}", "]">>) }

\* arrays of partner-like objects
PartnerDocs ==
    { Enc(<<"[", "{", "\"", "i", "d", "\"", ":", "\"", "1", "\"", ",", "\"", "n", "a", "m", "e", "\"", ":", "\"", "A", "c", "m", "e", " ", "-", " ", "G", "e", "r", "m", "a", "n", "y", "\"", ",", "\"", "t", "y", "p", "e", "\"", ":", "\"", "g", "o", "l", "d", " ", "p", "a", "r", "t", "n", "e", "r", "\"", ",", "\"", "d", "e", "s", "c", "\"", ":", "\"", "d", "\"", "}", ",", "{", "\"", "i", "d", "\"", ":", "\"", "2", "\"", ",", "\"", "n", "a", "m", "e", "\"", ":", "\"", "A", "c", "m", "e", " ", "-", " ", "G", "e", "r", "m", "a", "n", "y", "\"", ",", "\"", "t", "y", "p", "e", "\"", ":", "\"", "s", "t", "a", "r", "t", "u", "p", "\"", "}", ",", "{", "\"", "i", "d", "\"", ":", "\"", "3", "\"", ",", "\"", "n", "a", "m", "e", "\"", ":", "\"", "Z", "e", "d", "\"", ",", "\"", "t", "y", "p", "e", "\"", ":", "\"", "s", "p", "o", "n", "s", "o", "r", "\"", "}", "]">>),
      Enc(<<"[", "{", "\"", "i", "d", "\"", ":", "\"", "1", "\"", ",", "\"", "n", "a", "m", "e", "\"", ":", "\"", "Z", "e", "d", "\"", ",", "\"", "t", "y", "p", "e", "\"", ":", "\"", "s", "p", "o", "n", "s", "o", "r", "\"", "}", "]">>) }

\* the JSON arrays that pages embed
Docs ==
    {IdDoc(s) : s \in StrValues} \cup {TagsDoc(s) : s \in StrValues}
        \cup SpeakerDocs \cup PartnerDocs

\* a JSON text escaped for embedding: every '"' written as backslash-quote
Embed(json) == Replace(json, BareQuote, EscapedQuote)

\* pages that embed a well-formed array
DocPages == {<<w[1] \o Embed(d) \o w[2], d>> : w \in Wrappers, d \in Docs}

\* pages in which arbitrary text follows the marker
RawPages ==
    {<<w[1] \o Marker \o t, <<>>>> : w \in Wrappers, t \in SeqsUpTo(TailAlphabet, MaxTail)}

\* pages in which the marker occurs twice
TwoMarkerPages ==
    {<<Marker \o a \o Marker \o b, <<>>>> : a, b \in SeqsUpTo({LBRACKET, RBRACKET}, 1)}

\* pages without the marker: empty, plain HTML, the marker cut short, and an
\* array that is not escaped
NoMarkerPages ==
    { <<<<>>, <<>>>>,
      <<Enc(<<"<", "p", ">", "[", "1", "]", "<", "/", "p", ">">>), <<>>>>,
      <<SubSeq(Marker, 1, Len(Marker) - 1), <<>>>>,
      <<Enc(<<"<", "s", "c", "r", "i", "p", "t", ">", "[", "{", "\"", "i", "d", "\"", ":", "\"", "1", "\"", "}", "]", "<", "/", "s", "c", "r", "i", "p", "t", ">">>), <<>>>> }

\* pages of more than 50 MB: an array with a run of spaces before its
\* closing bracket
LongPages ==
    {LET long == SubSeq(d, 1, Len(d) - 1) \o <<SpaceRun, RBRACKET>>
     IN  <<Embed(long), long>> : d \in SpeakerDocs \cup PartnerDocs \cup {IdDoc(<<97>>)}}

\* every generated page with the JSON array it embeds (<<>> for none)
Pages == DocPages \cup RawPages \cup TwoMarkerPages \cup NoMarkerPages \cup LongPages

(***************************************************************************)
(* The state of one run.                                                   *)
(***************************************************************************)
VARIABLES
    target,        \* cli.target: "speakers" or "partners"
    page,          \* the text the server holds
    embedded,      \* the JSON array the page embeds, <<>> for none (not read by the program)
    pc,            \* where the run stands
    html_content,  \* the fetched text
    start_idx,     \* byte offset of the marker, -1 for None
    iter,          \* char_indices(): the characters left and the byte offset of the next
    scan,          \* bracket_count, in_string, escape_next of the scan
    end_idx,       \* start_idx + i where the scan stopped, -1 while it has not
    extract_ret,   \* what the extraction function returned: "", "Ok" or its Err
    json_str,      \* the text recovered from the delimited payload
    array,         \* the parsed top-level array (partners)
    idx,           \* items of array the filter has taken
    partners,      \* the filter's result so far
    built,         \* per taken item: the Partner built from it, or None (history)
    records,       \* the CSV records handed to the export
    fs,            \* the files: debug_vivatech_page.html and the output CSV
    fs_before,     \* the files as the run found them (history)
    err,           \* the error the run returns, "" for none
    failed_at,     \* the step whose failure ended the run, "none" for none (history)
    trace,         \* the steps started, in order (history)
    u_input,       \* unescape_unicode on its own: the input
    u_st           \* unescape_unicode on its own: the iterator's rest and the result

vars ==
    <<target, page, embedded, pc, html_content, start_idx, iter, scan, end_idx,
      extract_ret, json_str, array, idx, partners, built, records, fs, fs_before, err,
      failed_at, trace, u_input, u_st>>

\* a file that does not exist; a file written in full; a file cut short by a
\* failed write (any proper prefix of what was to be written)
Absent == [state |-> "absent", data |-> <<>>]
Complete(data) == [state |-> "complete", data |-> data]
Partial == [state |-> "partial", data |-> <<>>]

\* an output file left by an earlier run
OldCsv == Complete(<<<<Enc(<<"o", "l", "d">>)>>>>)

\* the messages of the errors the run can return
ErrSend == "Failed to send HTTP request"
ErrStatus == "Server returned non-success status code"
ErrBody == "Failed to read response body as text"
ErrNoSpeakerJson == "Could not find speaker data JSON in the HTML content"
ErrNoPartnerData == "No partner data found"
ErrParseSpeakers == "Failed to parse JSON data into Speaker structs"
ErrDebugCreate == "Failed to create debug HTML file"
ErrDebugWrite == "Failed to write HTML content to debug file"
ErrCsvCreate == "Failed to create CSV file"
ErrCsvWrite == "Failed to write record to CSV"
ErrCsvFlush == "Failed to flush CSV writer"

FetchErrors == {ErrSend, ErrStatus, ErrBody}

\* the locals that a run has not set yet
Idle ==
    /\ html_content = <<>>
    /\ start_idx = -1
    /\ iter = [rest |-> <<>>, offset |-> 0]
    /\ scan = ScanInit
    /\ end_idx = -1
    /\ extract_ret = ""
    /\ json_str = <<>>
    /\ array = <<>>
    /\ idx = 0
    /\ partners = <<>>
    /\ built = <<>>
    /\ records = <<>>
    /\ err = ""
    /\ failed_at = "none"
    /\ trace = <<>>

NoUnescape ==
    /\ u_input = <<>>
    /\ u_st = [rest |-> <<>>, out |-> <<>>]

Init ==
    /\ target \in {"speakers", "partners"}
    /\ \E p \in Pages : page = p[1] /\ embedded = p[2]
    /\ pc = "fetch"
    /\ fs_before \in {[debug |-> Absent, csv |-> c] : c \in {Absent, OldCsv}}
    /\ fs = fs_before
    /\ Idle
    /\ NoUnescape

(***************************************************************************)
(* run_scraper and run_partners_scraper, step by step.                     *)
(***************************************************************************)
\* what no step of a run changes
fixedVars == <<target, page, embedded, fs_before, u_input, u_st>>

\* the locals of the scan
scanVars == <<start_idx, iter, scan, end_idx>>

\* the locals of the filter
filterVars == <<array, idx, partners, built>>

\* fetch_page_content: the body, or an error that ends the run
Fetch ==
    /\ pc = "fetch"
    /\ trace' = Append(trace, "fetch")
    /\ \/ /\ html_content' = page
          /\ pc' = "extract"
          /\ UNCHANGED <<err, failed_at>>
       \/ /\ err' \in FetchErrors
          /\ failed_at' = "fetch"
          /\ pc' = "done_err"
          /\ UNCHANGED html_content
    /\ UNCHANGED <<fixedVars, scanVars, filterVars, extract_ret, json_str, records, fs>>

\* where a run goes when its extraction function returns Err: run_scraper
\* saves the page first, run_partners_scraper returns at once
AfterExtractErr(t) == IF t = "speakers" THEN "save_debug" ELSE "done_err"

\* the Err that ends the extraction function
ExtractErr(t) == IF t = "speakers" THEN ErrNoSpeakerJson ELSE ErrNoPartnerData

\* the extraction function returns Err; step names the step that failed
ReturnExtractErr(step) ==
    /\ extract_ret' = ExtractErr(target)
    /\ err' = ExtractErr(target)
    /\ pc' = AfterExtractErr(target)
    /\ failed_at' = IF AfterExtractErr(target) = "done_err" THEN step ELSE failed_at

\* html_content.find(marker)
ExtractStart ==
    /\ pc = "extract"
    /\ trace' = Append(trace, "extract")
    /\ start_idx' = Find(html_content, Marker)
    /\ IF start_idx' = -1
       THEN ReturnExtractErr("extract") /\ UNCHANGED iter
       ELSE /\ pc' = "scan"
            /\ iter' = [rest |-> SliceFrom(html_content, start_idx'), offset |-> 0]
            /\ UNCHANGED <<err, failed_at, extract_ret>>
    /\ UNCHANGED <<fixedVars, filterVars, html_content, scan, end_idx, json_str, records,
                   fs>>

\* what the speakers loop does with the delimited payload: return it
SpeakersHit(text) ==
    /\ json_str' = text
    /\ extract_ret' = "Ok"
    /\ pc' = "parse"
    /\ UNCHANGED <<array, err, failed_at, trace>>

\* what the partners loop does with it: parse it, and on an array go on to
\* the filter, otherwise break out of the loop
PartnersHit(text) ==
    /\ json_str' = text
    /\ trace' = Append(trace, "parse")
    /\ IF from_str(text).ok /\ from_str(text).v.t = "arr"
       THEN /\ array' = from_str(text).v.a
            /\ pc' = "filter"
            /\ UNCHANGED <<err, failed_at, extract_ret>>
       ELSE /\ ReturnExtractErr("parse")
            /\ UNCHANGED array

\* whether the partners loop breaks at its safety limit at the character ch
\* at byte offset i (the escape branch continues before the test); in a run
\* of spaces the test is taken at each space, the last one at offset
\* i + SAFETY_LIMIT
LimitBreaks(t, was_escaped, i, ch) ==
    /\ t = "partners"
    /\ IF ch = SpaceRun THEN i + SAFETY_LIMIT > SAFETY_LIMIT
       ELSE ~was_escaped /\ i > SAFETY_LIMIT

\* one iteration of the scan loop
ScanStep ==
    /\ pc = "scan"
    /\ iter.rest # <<>>
    /\ LET ch == Head(iter.rest)
           i == iter.offset
           st == ScanIter(scan, ch)
       IN  /\ scan' = [st EXCEPT !.hit = FALSE]
           /\ iter' = [rest |-> Tail(iter.rest), offset |-> i + Utf8Len(ch)]
           /\ IF st.hit
              THEN /\ end_idx' = start_idx + i
                   /\ IF ~SliceInclusiveOk(html_content, start_idx, start_idx + i)
                      THEN /\ pc' = "panic"
                           /\ UNCHANGED <<json_str, array, err, failed_at, trace,
                                          extract_ret>>
                      ELSE LET text == RecoverText(SliceInclusive(html_content, start_idx,
                                                                  start_idx + i))
                           IN  IF target = "speakers" THEN SpeakersHit(text)
                               ELSE PartnersHit(text)
              ELSE /\ UNCHANGED end_idx
                   /\ IF LimitBreaks(target, scan.escape_next, i, ch)
                      THEN /\ ReturnExtractErr("extract")
                           /\ UNCHANGED <<json_str, array, trace>>
                      ELSE UNCHANGED <<pc, json_str, array, err, failed_at, trace,
                                       extract_ret>>
    /\ UNCHANGED <<fixedVars, html_content, start_idx, idx, partners, built, records, fs>>

\* the loop runs out of characters: the function falls through to its Err
ScanExhausted ==
    /\ pc = "scan"
    /\ iter.rest = <<>>
    /\ ReturnExtractErr("extract")
    /\ UNCHANGED <<fixedVars, scanVars, filterVars, html_content, json_str, records, fs,
                   trace>>

\* run_scraper's Err arm: save_debug_html(...)?, then return Err(e)
SaveDebug ==
    /\ pc = "save_debug"
    /\ trace' = Append(trace, "debug")
    /\ pc' = "done_err"
    /\ \/ /\ fs' = [fs EXCEPT !.debug = Complete(html_content)]
          /\ failed_at' = "extract"
          /\ UNCHANGED err
       \/ /\ err' = ErrDebugCreate
          /\ failed_at' = "debug"
          /\ UNCHANGED fs
       \/ /\ fs' = [fs EXCEPT !.debug = Partial]
          /\ err' = ErrDebugWrite
          /\ failed_at' = "debug"
    /\ UNCHANGED <<fixedVars, scanVars, filterVars, html_content, extract_ret, json_str,
                   records>>

\* a run that goes on to the export whatever the parse returned
AfterParseAlways(ok) == "export"

\* where run_scraper goes after parse_speakers_from_json(...)?
AfterParse(ok) == IF ok THEN "export" ELSE "done_err"

\* parse_speakers_from_json, then convert_to_csv_records
ParseSpeakers ==
    /\ pc = "parse"
    /\ trace' = Append(trace, "parse")
    /\ LET r == parse_speakers_from_json(json_str)
       IN  /\ pc' = AfterParse(r.ok)
           /\ IF r.ok
              THEN /\ records' = convert_to_csv_records(r.speakers)
                   /\ UNCHANGED <<err, failed_at>>
              ELSE /\ err' = ErrParseSpeakers
                   /\ failed_at' = "parse"
                   /\ UNCHANGED records
    /\ UNCHANGED <<fixedVars, scanVars, filterVars, html_content, extract_ret, json_str,
                   fs>>

\* one iteration of `for item in array` in extract_partners_from_json_array
FilterStep ==
    /\ pc = "filter"
    /\ idx < Len(array)
    /\ idx' = idx + 1
    /\ partners' = FilterIter(partners, array[idx + 1])
    /\ built' = Append(built, IF PassesFilter(array[idx + 1])
                              THEN Some(BuildPartner(array[idx + 1])) ELSE None)
    /\ UNCHANGED <<fixedVars, scanVars, pc, html_content, extract_ret, json_str, array,
                   records, fs, err, failed_at, trace>>

\* the filter returns, and with it extract_partners_from_html;
\* run_partners_scraper converts the partners
FilterDone ==
    /\ pc = "filter"
    /\ idx = Len(array)
    /\ extract_ret' = "Ok"
    /\ records' = convert_to_partner_records(partners)
    /\ pc' = "export"
    /\ UNCHANGED <<fixedVars, scanVars, filterVars, html_content, json_str, fs, err,
                   failed_at, trace>>

\* the header of the run's record type
Header == IF target = "speakers" THEN SpeakerHeader ELSE PartnerHeader

\* File::create(output_path): the file exists and is empty, or an error
ExportCreate ==
    /\ pc = "export"
    /\ trace' = Append(trace, "export")
    /\ \/ /\ fs' = [fs EXCEPT !.csv = Complete(<<>>)]
          /\ pc' = "write"
          /\ UNCHANGED <<err, failed_at>>
       \/ /\ err' = ErrCsvCreate
          /\ failed_at' = "export"
          /\ pc' = "done_err"
          /\ UNCHANGED fs
    /\ UNCHANGED <<fixedVars, scanVars, filterVars, html_content, extract_ret, json_str,
                   records>>

\* the serialize loop and the flush: every row written, or a failed write
\* that leaves the file cut short
ExportWrite ==
    /\ pc = "write"
    /\ \/ /\ fs' = [fs EXCEPT !.csv = Complete(CsvRows(Header, records))]
          /\ pc' = "done_ok"
          /\ UNCHANGED <<err, failed_at>>
       \/ /\ records # <<>>
          /\ fs' = [fs EXCEPT !.csv = Partial]
          /\ err' \in {ErrCsvWrite, ErrCsvFlush}
          /\ failed_at' = "export"
          /\ pc' = "done_err"
    /\ UNCHANGED <<fixedVars, scanVars, filterVars, html_content, extract_ret, json_str,
                   records, trace>>

Next ==
    \/ Fetch
    \/ ExtractStart
    \/ ScanStep
    \/ ScanExhausted
    \/ SaveDebug
    \/ ParseSpeakers
    \/ FilterStep
    \/ FilterDone
    \/ ExportCreate
    \/ ExportWrite

Spec == Init /\ [][Next]_vars

(***************************************************************************)
(* extract_partners_from_json_array on its own, over arrays of JSON values *)
(* of every shape the filter tells apart.                                  *)
(***************************************************************************)
TextA == Enc(<<"A">>)
TextB == Enc(<<"B">>)
TextC == Enc(<<"C">>)
TextD == Enc(<<"d">>)
TextS == Enc(<<"s">>)

FilterItems ==
  <<
    JObj(<< <<KeyName, JStr(TextA)>>, <<KeyType, JStr(TextPartner)>>,
            <<KeyDesc, JStr(TextD)>>, <<KeyShortDesc, JStr(TextS)>> >>),
    JObj(<< <<KeyName, JStr(TextA)>>, <<KeyType, JStr(TextStartup)>>,
            <<KeyDesc, JNull>>, <<KeyShortDesc, JStr(TextS)>> >>),
    JObj(<< <<KeyName, JStr(TextB)>>, <<KeyType, JStr(Enc(<<"g", "o", "l", "d", " ", "p", "a", "r", "t", "n", "e", "r">>))>>,
            <<KeyShortDesc, JStr(TextS)>> >>),
    JObj(<< <<KeyName, JStr(TextB)>>, <<KeyType, JStr(Enc(<<"s", "p", "o", "n", "s", "o", "r">>))>>,
            <<KeyDesc, JStr(TextD)>> >>),
    JObj(<< <<KeyName, JStr(TextA)>>, <<KeyType, JStr(Enc(<<"s", "t", "a", "r", "t", "u", "p", "s">>))>> >>),
    JObj(<< <<KeyName, JNum(Enc(<<"5">>))>>, <<KeyType, JStr(TextPartner)>> >>),
    JObj(<< <<KeyType, JStr(TextStartup)>> >>),
    JObj(<< <<KeyName, JStr(TextB)>>, <<KeyType, JNull>> >>),
    JStr(TextPartner),
    JObj(<< <<KeyName, JStr(TextC)>>, <<KeyType, JStr(TextPartner)>> >>)
  >>

\* the arrays of up to MaxItems of these items
FilterArrays ==
    {[j \in 1..Len(c) |-> FilterItems[c[j]]] : c \in SeqsUpTo(1..Len(FilterItems), MaxItems)}

InitFilter ==
    /\ target = "partners"
    /\ page = <<>>
    /\ embedded = <<>>
    /\ pc = "filter"
    /\ fs_before = [debug |-> Absent, csv |-> Absent]
    /\ fs = fs_before
    /\ html_content = <<>>
    /\ start_idx = -1
    /\ iter = [rest |-> <<>>, offset |-> 0]
    /\ scan = ScanInit
    /\ end_idx = -1
    /\ extract_ret = ""
    /\ json_str = <<>>
    /\ array \in FilterArrays
    /\ idx = 0
    /\ partners = <<>>
    /\ built = <<>>
    /\ records = <<>>
    /\ err = ""
    /\ failed_at = "none"
    /\ trace = <<>>
    /\ NoUnescape

NextFilter ==
    \/ FilterStep
    \/ FilterDone

SpecFilter == InitFilter /\ [][NextFilter]_vars

(***************************************************************************)
(* unescape_unicode on its own.                                            *)
(***************************************************************************)
\* the characters generated after a backslash-u: '0', '4', '8', 'd', '+', 'Z'
AfterUAlphabet == {48, 52, 56, 100, 43, 90}

\* backslash-u followed by up to MaxAfterU of these characters
UnicodeInputs == {<<BACKSLASH, LOWER_U>> \o t : t \in SeqsUpTo(AfterUAlphabet, MaxAfterU)}

\* short texts over backslash, 'u', 'n', '"' and 'a'
PlainInputs == SeqsUpTo({BACKSLASH, LOWER_U, 110, QUOTE, 97}, 3)

\* the escapes the specification names
NamedInputs == {Enc(<<"\\", "u", "0", "0", "2", "6">>), Enc(<<"\\", "u", "0", "0", "e", "9">>), Enc(<<"\\", "u", "Z", "Z", "Z", "Z">>), Enc(<<"a", "\\">>)}

UnescapeInputs == UnicodeInputs \cup PlainInputs \cup NamedInputs

InitUnescape ==
    /\ target = "none"
    /\ page = <<>>
    /\ embedded = <<>>
    /\ pc = "unescape"
    /\ fs_before = [debug |-> Absent, csv |-> Absent]
    /\ fs = fs_before
    /\ Idle
    /\ u_input \in UnescapeInputs
    /\ u_st = [rest |-> u_input, out |-> <<>>]

\* one iteration of the loop of unescape_unicode
UnescapeStep ==
    /\ pc = "unescape"
    /\ u_st.rest # <<>>
    /\ u_st' = UnescapeIter(u_st)
    /\ UNCHANGED <<target, page, embedded, fs_before, u_input, scanVars, filterVars, pc,
                   html_content, extract_ret, json_str, records, fs, err, failed_at,
                   trace>>

NextUnescape == UnescapeStep

SpecUnescape == InitUnescape /\ [][NextUnescape]_vars

(***************************************************************************)
(* Claims about the extraction (specification Spec).                       *)
(***************************************************************************)
\* the extraction function has been called and has returned, or panicked
ExtractionOver == extract_ret # "" \/ pc = "panic"

\* the byte offset of the closing bracket of the embedded array in the page
\* (the page's first marker occurrence begins the embedded array)
TrueEnd == Find(page, Marker) + ByteLen(Embed(embedded)) - 1

\* C1: on a page whose first marker occurrence begins a well-formed escaped
\* JSON array, the scan ends the payload at the array's own closing bracket,
\* whatever '[' and ']' the array's string values hold.
C1_ScanEndsAtArrayEnd ==
    (embedded # <<>> /\ end_idx # -1) => end_idx = TrueEnd

\* C2: on such a page extract_json_from_html succeeds and returns text that
\* is valid JSON and parses to the embedded array.
C2_RoundTrip ==
    (target = "speakers" /\ embedded # <<>> /\ ExtractionOver) =>
        /\ extract_ret = "Ok"
        /\ from_str(json_str).ok
        /\ from_str(json_str).v = from_str(embedded).v

\* the character positions at which the marker occurs in s
MarkerPositions(s) == {p \in 1..Len(s) : MatchesAt(s, Marker, p)}

\* the text from the first marker occurrence on
FromFirstMarker(s) ==
    SubSeq(s, CHOOSE p \in MarkerPositions(s) : \A q \in MarkerPositions(s) : p <= q, Len(s))

RECURSIVE ScanFold(_, _)
\* the scan's state after the text s, stopping at a hit (by halves)
ScanFold(st, s) ==
    IF st.hit \/ s = <<>> THEN st
    ELSE IF Len(s) = 1 THEN ScanIter(st, s[1])
    ELSE ScanFold(ScanFold(st, SubSeq(s, 1, Len(s) \div 2)),
                  SubSeq(s, Len(s) \div 2 + 1, Len(s)))

\* the depth returns to 0 somewhere in the scan of s
DepthReturns(s) == ScanFold(ScanInit, s).hit

\* the errors of the two extraction functions
NotFoundErrors == {ErrNoSpeakerJson, ErrNoPartnerData}

\* C3: the extraction returns its not-found error, and never panics, when
\* the marker does not occur and when the scan from the first marker
\* occurrence runs out of input with the depth above 0, also when a later
\* marker occurrence would delimit an array.
C3_NotFoundWithoutPanic ==
    /\ pc # "panic"
    /\ (/\ extract_ret # ""
        /\ \/ MarkerPositions(html_content) = {}
           \/ ~DepthReturns(FromFirstMarker(html_content)))
       => (extract_ret = ExtractErr(target) /\ extract_ret \in NotFoundErrors)

\* C3's case: the scan from the first of two marker occurrences ran out, a
\* scan from the second would have stopped, and the function returned its
\* not-found error
C3_Witness ==
    /\ extract_ret \in NotFoundErrors
    /\ Cardinality(MarkerPositions(html_content)) = 2
    /\ ~DepthReturns(FromFirstMarker(html_content))
    /\ \E p \in MarkerPositions(html_content) :
           DepthReturns(SubSeq(html_content, p, Len(html_content)))

\* C4: in either pipeline, when the extraction step fails after a successful
\* fetch, the whole page is in debug_vivatech_page.html by the time the
\* extraction error is returned to the caller.
C4_DebugSavedBeforeError ==
    (pc = "done_err" /\ err \in NotFoundErrors) => fs.debug = Complete(html_content)

\* the steps of the trace other than the debug dump
Steps == SelectSeq(trace, LAMBDA s : s # "debug")

PipelineOrder == <<"fetch", "extract", "parse", "export">>

\* C5: the steps run in the order fetch, extract, parse, export; a run that
\* fails at fetch, extraction or parsing runs no later step and leaves the
\* output CSV as it found it, the debug dump being the only file it may
\* write.
C5_AbortsAtFirstFailure ==
    /\ Len(Steps) <= Len(PipelineOrder)
    /\ Steps = SubSeq(PipelineOrder, 1, Len(Steps))
    /\ failed_at \in {"fetch", "extract", "parse", "debug"} =>
           /\ pc = "done_err"
           /\ fs.csv = fs_before.csv
           /\ Steps[Len(Steps)] = (IF failed_at = "debug" THEN "extract" ELSE failed_at)
           /\ (fs.debug # fs_before.debug => Steps[Len(Steps)] = "extract")

\* C5's case: the parse failed and the output file of an earlier run is
\* still what it was
C5_Witness ==
    /\ pc = "done_err"
    /\ failed_at = "parse"
    /\ target = "speakers"
    /\ fs_before.csv = OldCsv
    /\ fs.csv = OldCsv

\* the parser of the run's pipeline rejects the recovered text
Rejected ==
    IF target = "speakers" THEN ~parse_speakers_from_json(json_str).ok
    ELSE ~from_str(json_str).ok

\* C6: when the scan delimits an array and the parser rejects the recovered
\* text, the run fails with a parser-level error, not with the extractor's
\* not-found error, in both pipelines.
C6_ParseErrorIsDistinct ==
    (end_idx # -1 /\ pc = "done_err" /\ failed_at = "parse" /\ Rejected)
        => err \notin NotFoundErrors

(***************************************************************************)
(* Claims about the partner filter (specification SpecFilter).             *)
(***************************************************************************)
\* the items taken so far from which the filter built a Partner
KeptIndices == {j \in 1..idx : built[j].some}

\* the first kept item that carries the name
FirstKept(name) ==
    CHOOSE j \in KeptIndices :
        /\ built[j].v.name = name
        /\ \A q \in KeptIndices : built[q].v.name = name => j <= q

\* C7: after any prefix of any array, no two partners of the result share a
\* name, and the partner kept for a name is the one built from the first
\* kept object of that name: later objects of the name change nothing.
C7_FirstOccurrenceWins ==
    /\ \A a, b \in 1..Len(partners) : a # b => partners[a].name # partners[b].name
    /\ \A j \in KeptIndices : \E a \in 1..Len(partners) : partners[a].name = built[j].v.name
    /\ \A a \in 1..Len(partners) :
           /\ \E j \in KeptIndices : built[j].v.name = partners[a].name
           /\ partners[a] = built[FirstKept(partners[a].name)].v

\* C7's case: two kept objects of one name and different categories have
\* been taken, and the result holds one partner of that name
C7_Witness ==
    \E j, k \in KeptIndices :
        /\ j < k
        /\ built[j].v.name = built[k].v.name
        /\ built[j].v.category # built[k].v.category
        /\ Cardinality({a \in 1..Len(partners) : partners[a].name = built[j].v.name}) = 1

\* the string value of member key of an object, when it has one
HasString(v, key) == \E m \in 1..Len(v.m) : v.m[m][1] = key /\ Get(v, key).v.t = "str"

\* what the specification says the filter keeps
SpecKeeps(v) ==
    /\ v.t = "obj"
    /\ HasString(v, KeyName)
    /\ HasString(v, KeyType)
    /\ \/ Contains(Get(v, KeyType).v.s, TextPartner)
       \/ Get(v, KeyType).v.s = TextStartup

\* C8: the filter keeps an element exactly when it is an object whose name
\* and type are strings and whose type contains "partner" or is "startup";
\* every other element is left out without failing the run, and a kept
\* record's category is the type string as it stands.
C8_FilterKeepsExactly ==
    /\ err = ""
    /\ pc \in {"filter", "export"}
    /\ \A j \in 1..idx :
           /\ built[j].some <=> SpecKeeps(array[j])
           /\ built[j].some => built[j].v.category = Get(array[j], KeyType).v.s

\* C8's case: a "gold partner", a "startups", a "sponsor" and an element that
\* is no object have all gone through the filter
C8_Witness ==
    /\ \E j \in 1..idx : built[j].some /\ built[j].v.category = FilterItems[3].m[2][2].s
    /\ \E j \in 1..idx : ~built[j].some /\ array[j] = FilterItems[5]
    /\ \E j \in 1..idx : ~built[j].some /\ array[j].t # "obj"

\* the text of a JSON value that is a string, "" for any other value
TextOf(v) == IF v.t = "str" THEN v.s ELSE <<>>

\* the description the specification gives an object
SpecDescription(v) ==
    IF Get(v, KeyDesc).some /\ Get(v, KeyDesc).v.t # "null"
    THEN TextOf(Get(v, KeyDesc).v)
    ELSE IF Get(v, KeyShortDesc).some THEN TextOf(Get(v, KeyShortDesc).v)
    ELSE <<>>

\* C9: a kept object's description is its desc if present and not null,
\* otherwise its short_desc, otherwise empty; an object with a null desc and
\* a string short_desc gets the short_desc.
C9_DescriptionFallback ==
    \A j \in KeptIndices : built[j].v.description = SpecDescription(array[j])

(***************************************************************************)
(* Claims about unescape_unicode (specification SpecUnescape).             *)
(***************************************************************************)
\* the (up to four) characters after a leading backslash-u, and what follows
AfterU == SubSeq(u_input, 3, IF Len(u_input) < 6 THEN Len(u_input) ELSE 6)
BeyondU == SubSeq(u_input, 7, Len(u_input))

\* four hexadecimal digits that form a valid code point
FourHexDigits(h) ==
    /\ Len(h) = 4
    /\ \A k \in 1..4 : HexDigit(h[k]) >= 0
    /\ IsScalarValue(HexValue(h, 0))

\* C10: a backslash-u and four characters become the encoded character
\* exactly when the four are hexadecimal digits of a valid code point; any
\* other sequence after the backslash-u, also a shorter one at the end of
\* the input, is emitted as it stands.
C10_UnicodeEscapeExactlyHex ==
    (u_input \in UnicodeInputs /\ u_st.rest = <<>>) =>
        u_st.out = IF FourHexDigits(AfterU)
                   THEN <<HexValue(AfterU, 0)>> \o BeyondU
                   ELSE u_input

(***************************************************************************)
(* Claims about the export and about the two scans (specification Spec).   *)
(***************************************************************************)
\* C11: a successful export leaves a file of one header row with the column
\* names followed by one row per record in record order, for every record
\* list, the empty one included.
C11_ExportHeaderAndRows ==
    pc = "done_ok" => fs.csv = Complete(<<Header>> \o records)

\* the byte offset, in the text s scanned from its start, of the character
\* at which the speakers loop returns; -1 when it runs to the end of s
HitOffset(s) ==
    LET ks == {k \in 1..Len(s) : ScanFold(ScanInit, SubSeq(s, 1, k)).hit}
    IN  IF ks = {} THEN -1
        ELSE ByteLen(SubSeq(s, 1, (CHOOSE k \in ks : \A q \in ks : k <= q) - 1))

\* extract_json_from_html as a function of the page: whether it delimits a
\* payload, the offsets of the payload and the text it returns
extract_json_from_html(s) ==
    LET start == Find(s, Marker)
        i == IF start = -1 THEN -1 ELSE HitOffset(SliceFrom(s, start))
    IN  IF i = -1
        THEN [found |-> FALSE, start |-> start, end |-> -1, text |-> <<>>]
        ELSE [found |-> TRUE, start |-> start, end |-> start + i,
              text |-> RecoverText(SliceInclusive(s, start, start + i))]

\* the scan of the run is over
ScanOver == extract_ret # "" \/ pc \in {"parse", "filter"}

\* C12: the two scans are one engine: on every page, whatever its length,
\* the scan of either pipeline delimits a payload exactly when
\* extract_json_from_html does, at the same start and end offsets and with
\* the same recovered text.
C12_OneExtractionEngine ==
    ScanOver =>
        LET o == extract_json_from_html(html_content)
        IN  IF o.found
            THEN start_idx = o.start /\ end_idx = o.end /\ json_str = o.text
            ELSE end_idx = -1 /\ json_str = <<>>

\* the scan is under way and has taken at least its first character
Scanning == pc = "scan" /\ iter.offset > 0

\* the depth while the scan goes on, and at every state
DepthAtLeastOne == (Scanning => scan.bracket_count >= 1) /\ scan.bracket_count >= 0

\* the step at which the scan delimits a payload
ScanReturns == pc = "scan" /\ end_idx' # end_idx

\* such a step takes a ']' outside a string, with the depth going from 1 to 0
ReturnsOnClosingBracket ==
    ScanReturns =>
        /\ Head(iter.rest) = RBRACKET
        /\ ~scan.in_string
        /\ ~scan.escape_next
        /\ scan.bracket_count = 1
        /\ scan'.bracket_count = 0

\* C13: on every page, well-formed or not, the bracket depth is at least 1
\* once the first character is taken and stays so at every later step until
\* the scan stops; the depth is never negative, and the scan delimits a
\* payload only at a ']' outside a string that takes the depth from 1 to 0.
C13_DepthStaysPositive == []DepthAtLeastOne /\ [][ReturnsOnClosingBracket]_vars

\* C13's case: on a page that embeds no well-formed array the scan has just
\* passed a ']' inside a string and goes on at depth 1
C13_Witness ==
    /\ Scanning
    /\ embedded = <<>>
    /\ scan.in_string
    /\ html_content[Len(html_content) - Len(iter.rest)] = RBRACKET
    /\ scan.bracket_count = 1

====
